---------------------------- MODULE Spec2Model ----------------------------
(***************************************************************************)
(* Readers and Writers: the two programs of the repository.                *)
(*                                                                         *)
(*   Policy A  src/r_w_1.c  readers pass freely while the flag             *)
(*             writer_notification is clear; a librarian thread sets the   *)
(*             flag after a window and signals the writer that has waited  *)
(*             longest.                                                    *)
(*   Policy B  src/r_w_2.c  all agents wait in one FIFO array; a librarian *)
(*             thread looks at queue[0] and broadcasts to that agent.      *)
(*                                                                         *)
(* Granularity.  A stretch of code between pthread_mutex_lock and          *)
(* pthread_mutex_unlock is one step (nothing that runs under the mutex is  *)
(* interleaved with it, and every access made without the mutex is a step  *)
(* of its own, so it can fall before or after any critical section).       *)
(* Every access the code makes WITHOUT the mutex is a separate step: the   *)
(* librarian's reads of queue[0].kind and queue[0].id (B), its reads of    *)
(* writers_in_library_count and writers_queue[i] and its write of          *)
(* writer_notification (A), the writer's read of readers_in_library_count  *)
(* (A), and every pthread_cond_signal / pthread_cond_broadcast.            *)
(* sleep(n) is a step that can be taken at any later time.                 *)
(* pthread_cond_wait returns only after a signal or broadcast (spurious    *)
(* wakeups are not modelled), and a signal sent while nobody waits is lost.*)
(* A spin loop re-reads its variable on every test.                        *)
(* Time stamps of Policy B are only printed and are left out.              *)
(***************************************************************************)
EXTENDS Integers, Sequences, FiniteSets, TLC

\* ------------------------------------------------------------------ bounds
MaxReaders == 2
MaxWriters == 2
MaxTime == 2
FairMaxReaders == 1
FairMaxWriters == 2
FairMaxThreads == 2
HistOrder == 2
MaxAgents == 3
MaxQueue == 23
IntBits == 4

\* --------------------------------------------------------- program constants
NO_KIND == 0
READER_KIND == 1
WRITER_KIND == 2
ShiftLimit == 20

\* the owners of the mutex
NoThread == <<"none", 0>>
RId(r) == <<"reader", r>>
WId(w) == <<"writer", w>>
LId == <<"librarian", 0>>

VARIABLES
    main_t,                   \* the main thread: its position, signal_flag, what it has cancelled and freed
    call,                     \* a call of get_random or args_interpreter looked at on its own
    readers_count,            \* both programs: argv[2]
    writers_count,            \* both programs: argv[1]
    mutex,                    \* owner of the mutex, NoThread when free
    rpc,                      \* position of every reader thread
    wpc,                      \* position of every writer thread
    lpc,                      \* position of the librarian thread
    \* Policy B
    queue,                    \* struct presence *queue, cells 0..N; cell N is the memory just past the array
    in_library,               \* struct presence *in_library, same layout
    lib_kind,                 \* the value the librarian's switch read from queue[0].kind
    hist,                     \* history of Policy B: who has entered and left the library so far
    \* Policy A
    now,                      \* time(NULL)
    readers_queue,
    readers_in_library,
    writers_queue,
    writers_in_library,
    readers_queue_count,
    readers_in_library_count,
    writers_queue_count,
    writers_in_library_count,
    writer_notification,
    lib_i,                    \* librarian's loop variable i
    max_time,                 \* librarian's local max_time
    max_waiter_id             \* librarian's local max_waiter_id

common == <<main_t, call, readers_count, writers_count, mutex, rpc, wpc, lpc>>
bvars == <<queue, in_library, lib_kind, hist>>
acounts == <<readers_queue_count, readers_in_library_count,
             writers_queue_count, writers_in_library_count>>
rarrays == <<readers_queue, readers_in_library>>
warrays == <<writers_queue, writers_in_library>>
llocals == <<lib_i, max_time, max_waiter_id>>
avars == <<now, rarrays, warrays, acounts, writer_notification, llocals>>
vars == <<common, bvars, avars>>

Readers == 0 .. (readers_count - 1)
Writers == 0 .. (writers_count - 1)
AllReaders == 0 .. (MaxReaders - 1)
AllWriters == 0 .. (MaxWriters - 1)
\* readers_count + writers_count: the number of cells malloc'ed for queue and in_library
N == readers_count + writers_count

Presence(k, i) == [kind |-> k, id |-> i]

\* The history of a run, kept only when hist.on: the first HistOrder admissions in
\* their order, the agents that have entered the library and those that have left it.
\* It records what read_books and write_book did; no action reads it.
HistOff == [on |-> FALSE, order |-> <<>>, entered |-> {}, left |-> {}]
HistOn == [on |-> TRUE, order |-> <<>>, entered |-> {}, left |-> {}]

HistEnter(h, k, i) ==
    IF ~h.on THEN h
    ELSE [h EXCEPT !.order = IF Len(@) < HistOrder THEN Append(@, Presence(k, i)) ELSE @,
                   !.entered = @ \cup {Presence(k, i)}]

HistLeave(h, k, i) ==
    IF ~h.on THEN h ELSE [h EXCEPT !.left = @ \cup {Presence(k, i)}]

\* ================================================================ Policy B

\* get_writers_in_library_count / get_readers_in_library_count: cells 0..N-1
CountKind(arr, k) == Cardinality({i \in 0 .. (N - 1) : arr[i].kind = k})
get_writers_in_library_count == CountKind(in_library, WRITER_KIND)
get_readers_in_library_count == CountKind(in_library, READER_KIND)
get_writers_queue_count == CountKind(queue, WRITER_KIND)
get_readers_queue_count == CountKind(queue, READER_KIND)

\* The kind read at index p of an array of cells 0..N.  Memory further out is
\* not modelled and reads as NO_KIND (a fresh, zero-filled heap).
KindAt(arr, p) == IF p \in DOMAIN arr THEN arr[p].kind ELSE NO_KIND

\* get_to_queue / get_to_library: while (arr[p].kind != NO_KIND) p++; arr[p] = (kind, id)
RECURSIVE FirstEmpty(_, _)
FirstEmpty(arr, p) ==
    IF KindAt(arr, p) # NO_KIND THEN FirstEmpty(arr, p + 1) ELSE p

PutAtFirstEmpty(arr, k, i) ==
    LET p == FirstEmpty(arr, 0)
    IN  IF p \in DOMAIN arr THEN [arr EXCEPT ![p] = Presence(k, i)] ELSE arr

\* get_to_queue had it written to index 0 whatever is there
get_to_queue_front(q, k, i) == [q EXCEPT ![0] = Presence(k, i)]

get_to_queue(q, k, i) == PutAtFirstEmpty(q, k, i)
get_to_library(lib, k, i) == PutAtFirstEmpty(lib, k, i)

\* leave_queue: while (queue[i+1].kind != NO_KIND && i < 20) { queue[i] = queue[i+1]; i++ }
\*              queue[i].kind = NO_KIND   (the id of the cell is left as it was)
RECURSIVE LeaveQueueLoop(_, _)
LeaveQueueLoop(q, i) ==
    IF KindAt(q, i + 1) # NO_KIND /\ i < ShiftLimit
    THEN LeaveQueueLoop([q EXCEPT ![i] = q[i + 1]], i + 1)
    ELSE IF i \in DOMAIN q THEN [q EXCEPT ![i].kind = NO_KIND] ELSE q

leave_queue(q) == LeaveQueueLoop(q, 0)

\* leave_library: the first cell i < N holding (kind, id) gets kind NO_KIND
leave_library(lib, k, i) ==
    LET hits == {p \in 0 .. (N - 1) : lib[p].kind = k /\ lib[p].id = i}
    IN  IF hits = {} THEN lib
        ELSE LET p == CHOOSE x \in hits : \A y \in hits : x <= y
             IN  [lib EXCEPT ![p].kind = NO_KIND]

\* init_queue on zero-filled memory: readers 0.. then writers 0..
RECURSIVE InitQueueLoop(_, _, _, _)
InitQueueLoop(q, i, nr, nw) ==
    IF i < nr THEN InitQueueLoop(get_to_queue(q, READER_KIND, i), i + 1, nr, nw)
    ELSE IF i < nr + nw
         THEN InitQueueLoop(get_to_queue(q, WRITER_KIND, i - nr), i + 1, nr, nw)
         ELSE q

ZeroCells(n) == [p \in 0 .. n |-> Presence(NO_KIND, 0)]

\* the Policy A variables, unused by Policy B
AIdle ==
    /\ now = 1
    /\ readers_queue = <<>> /\ readers_in_library = <<>>
    /\ writers_queue = <<>> /\ writers_in_library = <<>>
    /\ readers_queue_count = 0 /\ readers_in_library_count = 0
    /\ writers_queue_count = 0 /\ writers_in_library_count = 0
    /\ writer_notification = 0
    /\ lib_i = 0 /\ max_time = 0 /\ max_waiter_id = 0

\* main() in its loop while (signal_flag), no interrupt so far
MainRunning == [pc |-> "loop", signal_flag |-> 1, cancelled |-> FALSE, cleaned |-> FALSE]

\* no function call is looked at on its own
NoCall == [fn |-> "none"]

StartThreads ==
    /\ main_t = MainRunning
    /\ call = NoCall
    /\ mutex = NoThread
    /\ rpc = [r \in AllReaders |-> IF r < readers_count THEN "start" ELSE "absent"]
    /\ wpc = [w \in AllWriters |-> IF w < writers_count THEN "start" ELSE "absent"]

ConfigB(maxr, maxw) ==
    /\ readers_count \in 0 .. maxr
    /\ writers_count \in 0 .. maxw
    /\ StartThreads
    /\ lpc = "switch"
    /\ queue = InitQueueLoop(ZeroCells(N), 0, readers_count, writers_count)
    /\ in_library = ZeroCells(N)
    /\ lib_kind = NO_KIND
    /\ AIdle

\* no history is kept
NoHist == hist = HistOff

InitB == ConfigB(MaxReaders, MaxWriters) /\ NoHist

\* reader() had it skipped pthread_cond_wait when its own record is at queue[0]
BReaderWaitUnlessHead(r) ==
    /\ rpc[r] = "start"
    /\ mutex \in {NoThread, RId(r)}
    /\ rpc' = [rpc EXCEPT ![r] = IF queue[0] = Presence(READER_KIND, r) THEN "go" ELSE "wait"]
    /\ mutex' = NoThread
    /\ UNCHANGED <<main_t, call, readers_count, writers_count, wpc, lpc, bvars, avars>>

\* reader(): lock; pthread_cond_wait(&readers_conds[reader_id]) releases the mutex
BReaderWait(r) ==
    /\ rpc[r] = "start"
    /\ mutex \in {NoThread, RId(r)}
    /\ rpc' = [rpc EXCEPT ![r] = "wait"]
    /\ mutex' = NoThread
    /\ UNCHANGED <<main_t, call, readers_count, writers_count, wpc, lpc, bvars, avars>>

\* reader(): pthread_cond_wait returns with the mutex; unlock
BReaderWoken(r) ==
    /\ rpc[r] = "woken"
    /\ mutex \in {NoThread, RId(r)}
    /\ rpc' = [rpc EXCEPT ![r] = "go"]
    /\ mutex' = NoThread
    /\ UNCHANGED <<main_t, call, readers_count, writers_count, wpc, lpc, bvars, avars>>

\* the first critical section of read_books had it not unlocked before the sleep
BReadBooksEnterHolding(r) ==
    /\ rpc[r] = "go"
    /\ mutex \in {NoThread, RId(r)}
    /\ queue' = leave_queue(queue)
    /\ in_library' = get_to_library(in_library, READER_KIND, r)
    /\ hist' = HistEnter(hist, READER_KIND, r)
    /\ rpc' = [rpc EXCEPT ![r] = "sleep"]
    /\ mutex' = RId(r)
    /\ UNCHANGED <<main_t, call, readers_count, writers_count, wpc, lpc, lib_kind, avars>>

\* read_books(), first critical section
BReadBooksEnter(r) ==
    /\ rpc[r] = "go"
    /\ mutex \in {NoThread, RId(r)}
    /\ queue' = leave_queue(queue)
    /\ in_library' = get_to_library(in_library, READER_KIND, r)
    /\ hist' = HistEnter(hist, READER_KIND, r)
    /\ rpc' = [rpc EXCEPT ![r] = "sleep"]
    /\ mutex' = NoThread
    /\ UNCHANGED <<main_t, call, readers_count, writers_count, wpc, lpc, lib_kind, avars>>

\* read_books(), sleep and second critical section
BReadBooksLeave(r) ==
    /\ rpc[r] = "sleep"
    /\ mutex \in {NoThread, RId(r)}
    /\ in_library' = leave_library(in_library, READER_KIND, r)
    /\ queue' = get_to_queue(queue, READER_KIND, r)
    /\ hist' = HistLeave(hist, READER_KIND, r)
    /\ rpc' = [rpc EXCEPT ![r] = "start"]
    /\ mutex' = NoThread
    /\ UNCHANGED <<main_t, call, readers_count, writers_count, wpc, lpc, lib_kind, avars>>

\* writer(): lock; pthread_cond_wait(&writers_conds[writer_id]) releases the mutex
BWriterWait(w) ==
    /\ wpc[w] = "start"
    /\ mutex \in {NoThread, WId(w)}
    /\ wpc' = [wpc EXCEPT ![w] = "wait"]
    /\ mutex' = NoThread
    /\ UNCHANGED <<main_t, call, readers_count, writers_count, rpc, lpc, bvars, avars>>

\* writer(): pthread_cond_wait returns with the mutex; unlock
BWriterWoken(w) ==
    /\ wpc[w] = "woken"
    /\ mutex \in {NoThread, WId(w)}
    /\ wpc' = [wpc EXCEPT ![w] = "go"]
    /\ mutex' = NoThread
    /\ UNCHANGED <<main_t, call, readers_count, writers_count, rpc, lpc, bvars, avars>>

\* write_book(), first critical section
BWriteBookEnter(w) ==
    /\ wpc[w] = "go"
    /\ mutex \in {NoThread, WId(w)}
    /\ queue' = leave_queue(queue)
    /\ in_library' = get_to_library(in_library, WRITER_KIND, w)
    /\ hist' = HistEnter(hist, WRITER_KIND, w)
    /\ wpc' = [wpc EXCEPT ![w] = "sleep"]
    /\ mutex' = NoThread
    /\ UNCHANGED <<main_t, call, readers_count, writers_count, rpc, lpc, lib_kind, avars>>

\* write_book(), sleep and second critical section
BWriteBookLeave(w) ==
    /\ wpc[w] = "sleep"
    /\ mutex \in {NoThread, WId(w)}
    /\ in_library' = leave_library(in_library, WRITER_KIND, w)
    /\ queue' = get_to_queue(queue, WRITER_KIND, w)
    /\ hist' = HistLeave(hist, WRITER_KIND, w)
    /\ wpc' = [wpc EXCEPT ![w] = "start"]
    /\ mutex' = NoThread
    /\ UNCHANGED <<main_t, call, readers_count, writers_count, rpc, lpc, lib_kind, avars>>

\* librarian(): switch (queue[0].kind), read without the mutex (after sleep(1))
BLibrarianSwitch ==
    /\ lpc = "switch"
    /\ lib_kind' = queue[0].kind
    /\ lpc' = "check"
    /\ UNCHANGED <<main_t, call, readers_count, writers_count, mutex, rpc, wpc, queue, in_library, hist,
                   avars>>

\* the loop condition had the READER_KIND case waited for an empty library as the
\* other two cases do
LoopDoneWhenEmpty ==
    get_readers_in_library_count = 0 /\ get_writers_in_library_count = 0

\* the condition that ends the do .. while loop of the case taken
BLibrarianLoopDone ==
    IF lib_kind = READER_KIND
    THEN get_writers_in_library_count = 0
    ELSE get_readers_in_library_count = 0 /\ get_writers_in_library_count = 0

\* librarian(): do { lock; temp = counts; unlock } while (temp): the pass that leaves the loop
BLibrarianCheck ==
    /\ lpc = "check"
    /\ mutex \in {NoThread, LId}
    /\ BLibrarianLoopDone
    /\ lpc' = "bcast"
    /\ mutex' = NoThread
    /\ UNCHANGED <<main_t, call, readers_count, writers_count, rpc, wpc, bvars, avars>>

\* pthread_cond_broadcast on a condition variable: every thread waiting on it wakes
Wake(pc, ids) == [t \in DOMAIN pc |-> IF t \in ids /\ pc[t] = "wait" THEN "woken" ELSE pc[t]]

\* librarian(): pthread_cond_broadcast(&readers_conds[queue[0].id]) (cases READER_KIND and
\* default) or &writers_conds[queue[0].id] (case WRITER_KIND); queue[0].id is read without
\* the mutex.  An id with no condition variable of that array wakes nobody.
BLibrarianBroadcast ==
    /\ lpc = "bcast"
    /\ LET id == queue[0].id
       IN  IF lib_kind = WRITER_KIND
           THEN /\ wpc' = Wake(wpc, {id} \cap Writers)
                /\ rpc' = rpc
           ELSE /\ rpc' = Wake(rpc, {id} \cap Readers)
                /\ wpc' = wpc
    /\ lpc' = "switch"
    /\ UNCHANGED <<main_t, call, readers_count, writers_count, mutex, bvars, avars>>

NextB ==
    \/ \E r \in Readers : BReaderWait(r)
    \/ \E r \in Readers : BReaderWoken(r)
    \/ \E r \in Readers : BReadBooksEnter(r)
    \/ \E r \in Readers : BReadBooksLeave(r)
    \/ \E w \in Writers : BWriterWait(w)
    \/ \E w \in Writers : BWriterWoken(w)
    \/ \E w \in Writers : BWriteBookEnter(w)
    \/ \E w \in Writers : BWriteBookLeave(w)
    \/ BLibrarianSwitch
    \/ BLibrarianCheck
    \/ BLibrarianBroadcast

SpecB == InitB /\ [][NextB]_vars

\* the configurations of at most MaxAgents readers and writers
SmallInitB == InitB /\ N <= MaxAgents
SmallSpecB == SmallInitB /\ [][NextB]_vars

\* the Policy B variables, unused by Policy A
BIdle ==
    /\ queue = <<>>
    /\ in_library = <<>>
    /\ lib_kind = NO_KIND
    /\ hist = HistOff

\* ================================================================ Policy A

\* get_timestamp(): time(NULL)
get_timestamp == now

\* What malloc'ed memory that the program never writes may hold: zero (a fresh heap)
\* or anything else.  variables_initializer mallocs the four arrays and init_queue
\* writes only readers_queue and writers_queue.
UninitFill == {0, 0 - 1}

ConfigA(maxr, maxw, fills) ==
    /\ readers_count \in 0 .. maxr
    /\ writers_count \in 0 .. maxw
    /\ StartThreads
    /\ lpc = "sleep"
    /\ now = 1
    /\ readers_queue = [r \in Readers |-> get_timestamp]
    /\ writers_queue = [w \in Writers |-> get_timestamp]
    /\ \E fill \in fills :
          /\ readers_in_library = [r \in Readers |-> fill]
          /\ writers_in_library = [w \in Writers |-> fill]
    /\ readers_queue_count = readers_count
    /\ writers_queue_count = writers_count
    /\ readers_in_library_count = 0
    /\ writers_in_library_count = 0
    /\ writer_notification = 0
    /\ lib_i = 0 /\ max_time = 0 /\ max_waiter_id = 0
    /\ BIdle

InitA == ConfigA(MaxReaders, MaxWriters, UninitFill)

\* the clock moves on
Tick ==
    /\ now < MaxTime
    /\ now' = now + 1
    /\ UNCHANGED <<common, bvars, rarrays, warrays, acounts, writer_notification, llocals>>

\* reader(): lock; if (writer_notification) pthread_cond_wait(&readers_cond); unlock
AReaderGate(r) ==
    /\ rpc[r] = "start"
    /\ mutex \in {NoThread, RId(r)}
    /\ rpc' = [rpc EXCEPT ![r] = IF writer_notification # 0 THEN "wait" ELSE "go"]
    /\ mutex' = NoThread
    /\ UNCHANGED <<main_t, call, readers_count, writers_count, wpc, lpc, bvars, avars>>

\* reader(): pthread_cond_wait returns with the mutex; unlock
AReaderWoken(r) ==
    /\ rpc[r] = "woken"
    /\ mutex \in {NoThread, RId(r)}
    /\ rpc' = [rpc EXCEPT ![r] = "go"]
    /\ mutex' = NoThread
    /\ UNCHANGED <<main_t, call, readers_count, writers_count, wpc, lpc, bvars, avars>>

\* read_books(), first critical section
AReadBooksEnter(r) ==
    /\ rpc[r] = "go"
    /\ mutex \in {NoThread, RId(r)}
    /\ readers_in_library' = [readers_in_library EXCEPT ![r] = get_timestamp]
    /\ readers_queue' = [readers_queue EXCEPT ![r] = 0]
    /\ readers_in_library_count' = readers_in_library_count + 1
    /\ readers_queue_count' = readers_queue_count - 1
    /\ rpc' = [rpc EXCEPT ![r] = "sleep"]
    /\ mutex' = NoThread
    /\ UNCHANGED <<main_t, call, readers_count, writers_count, wpc, lpc, bvars, now, warrays,
                   writers_queue_count, writers_in_library_count, writer_notification,
                   llocals>>

\* read_books(), sleep and second critical section
AReadBooksLeave(r) ==
    /\ rpc[r] = "sleep"
    /\ mutex \in {NoThread, RId(r)}
    /\ readers_in_library' = [readers_in_library EXCEPT ![r] = 0]
    /\ readers_queue' = [readers_queue EXCEPT ![r] = get_timestamp]
    /\ readers_in_library_count' = readers_in_library_count - 1
    /\ readers_queue_count' = readers_queue_count + 1
    /\ rpc' = [rpc EXCEPT ![r] = "start"]
    /\ mutex' = NoThread
    /\ UNCHANGED <<main_t, call, readers_count, writers_count, wpc, lpc, bvars, now, warrays,
                   writers_queue_count, writers_in_library_count, writer_notification,
                   llocals>>

\* writer(): lock; pthread_cond_wait(&writers_conds[writer_id]) releases the mutex
AWriterWait(w) ==
    /\ wpc[w] = "start"
    /\ mutex \in {NoThread, WId(w)}
    /\ wpc' = [wpc EXCEPT ![w] = "wait"]
    /\ mutex' = NoThread
    /\ UNCHANGED <<main_t, call, readers_count, writers_count, rpc, lpc, bvars, avars>>

\* writer(): pthread_cond_wait returns with the mutex; unlock
AWriterWoken(w) ==
    /\ wpc[w] = "woken"
    /\ mutex \in {NoThread, WId(w)}
    /\ wpc' = [wpc EXCEPT ![w] = "spin"]
    /\ mutex' = NoThread
    /\ UNCHANGED <<main_t, call, readers_count, writers_count, rpc, lpc, bvars, avars>>

\* writer(): while (readers_in_library_count); read without the mutex: the test that
\* leaves the loop
AWriterSpin(w) ==
    /\ wpc[w] = "spin"
    /\ readers_in_library_count = 0
    /\ wpc' = [wpc EXCEPT ![w] = "go"]
    /\ UNCHANGED <<main_t, call, readers_count, writers_count, mutex, rpc, lpc, bvars, avars>>

\* write_book(), first critical section
AWriteBookEnter(w) ==
    /\ wpc[w] = "go"
    /\ mutex \in {NoThread, WId(w)}
    /\ writers_in_library' = [writers_in_library EXCEPT ![w] = get_timestamp]
    /\ writers_queue' = [writers_queue EXCEPT ![w] = 0]
    /\ writers_in_library_count' = writers_in_library_count + 1
    /\ writers_queue_count' = writers_queue_count - 1
    /\ wpc' = [wpc EXCEPT ![w] = "sleep"]
    /\ mutex' = NoThread
    /\ UNCHANGED <<main_t, call, readers_count, writers_count, rpc, lpc, bvars, now, rarrays,
                   readers_queue_count, readers_in_library_count, writer_notification,
                   llocals>>

\* write_book(), sleep and second critical section
AWriteBookLeave(w) ==
    /\ wpc[w] = "sleep"
    /\ mutex \in {NoThread, WId(w)}
    /\ writers_in_library' = [writers_in_library EXCEPT ![w] = 0]
    /\ writers_queue' = [writers_queue EXCEPT ![w] = get_timestamp]
    /\ writers_in_library_count' = writers_in_library_count - 1
    /\ writers_queue_count' = writers_queue_count + 1
    /\ writer_notification' = 0
    /\ wpc' = [wpc EXCEPT ![w] = "bcast"]
    /\ mutex' = NoThread
    /\ UNCHANGED <<main_t, call, readers_count, writers_count, rpc, lpc, bvars, now, rarrays,
                   readers_queue_count, readers_in_library_count, llocals>>

\* writer() had it gone back to the top of its loop without the broadcast
AWriterNoBroadcast(w) ==
    /\ wpc[w] = "bcast"
    /\ wpc' = [wpc EXCEPT ![w] = "start"]
    /\ UNCHANGED <<main_t, call, readers_count, writers_count, mutex, rpc, lpc, bvars, avars>>

\* writer(): pthread_cond_broadcast(&readers_cond) after write_book returns
AWriterBroadcast(w) ==
    /\ wpc[w] = "bcast"
    /\ rpc' = Wake(rpc, Readers)
    /\ wpc' = [wpc EXCEPT ![w] = "start"]
    /\ UNCHANGED <<main_t, call, readers_count, writers_count, mutex, lpc, bvars, avars>>

\* librarian(): sleep(window); if (!writers_in_library_count), read without the mutex
ALibrarianCheck ==
    /\ lpc = "sleep"
    /\ lpc' = IF writers_in_library_count = 0 THEN "gate" ELSE "spin"
    /\ UNCHANGED <<main_t, call, readers_count, writers_count, mutex, rpc, wpc, bvars, avars>>

\* librarian(): writer_notification = 1; int i, time, max_waiter_id = 0, max_time = 0; i = 0
ALibrarianGate ==
    /\ lpc = "gate"
    /\ writer_notification' = 1
    /\ lib_i' = 0
    /\ max_waiter_id' = 0
    /\ max_time' = 0
    /\ lpc' = "scan"
    /\ UNCHANGED <<main_t, call, readers_count, writers_count, mutex, rpc, wpc, bvars, now, rarrays,
                   warrays, acounts>>

\* librarian(): one pass of for (i = 0; i < writers_count; i++):
\*   time = get_timestamp() - writers_queue[i]; if (time > max_time) { max_time = time; max_waiter_id = i; }
ALibrarianScan ==
    /\ lpc = "scan"
    /\ lib_i < writers_count
    /\ LET time == get_timestamp - writers_queue[lib_i]
       IN  IF time > max_time
           THEN max_time' = time /\ max_waiter_id' = lib_i
           ELSE UNCHANGED <<max_time, max_waiter_id>>
    /\ lib_i' = lib_i + 1
    /\ UNCHANGED <<common, bvars, now, rarrays, warrays, acounts, writer_notification>>

\* librarian(): the loop has ended; pthread_cond_signal(&writers_conds[max_waiter_id]):
\* the writer waiting on that condition variable wakes, a signal nobody waits for is
\* lost.  With writers_count = 0 there is no such condition variable and nobody wakes.
\* The block closes and its locals i, max_time, max_waiter_id are gone (kept as 0).
ALibrarianSignal ==
    /\ lpc = "scan"
    /\ ~(lib_i < writers_count)
    /\ wpc' = Wake(wpc, {max_waiter_id} \cap Writers)
    /\ lpc' = "spin"
    /\ lib_i' = 0 /\ max_time' = 0 /\ max_waiter_id' = 0
    /\ UNCHANGED <<main_t, call, readers_count, writers_count, mutex, rpc, bvars, now, rarrays,
                   warrays, acounts, writer_notification>>

\* librarian(): while (writers_in_library_count); read without the mutex: the test that
\* leaves the loop
ALibrarianSpin ==
    /\ lpc = "spin"
    /\ writers_in_library_count = 0
    /\ lpc' = "sleep"
    /\ UNCHANGED <<main_t, call, readers_count, writers_count, mutex, rpc, wpc, bvars, avars>>

\* every step of a reader, a writer or the librarian
AReaderStep(r) ==
    AReaderGate(r) \/ AReaderWoken(r) \/ AReadBooksEnter(r) \/ AReadBooksLeave(r)
AWriterStep(w) ==
    \/ AWriterWait(w) \/ AWriterWoken(w) \/ AWriterSpin(w)
    \/ AWriteBookEnter(w) \/ AWriteBookLeave(w) \/ AWriterBroadcast(w)
ALibrarianStep ==
    \/ ALibrarianCheck \/ ALibrarianGate \/ ALibrarianScan
    \/ ALibrarianSignal \/ ALibrarianSpin

ThreadsA ==
    \/ \E r \in Readers : AReaderGate(r)
    \/ \E r \in Readers : AReaderWoken(r)
    \/ \E r \in Readers : AReadBooksEnter(r)
    \/ \E r \in Readers : AReadBooksLeave(r)
    \/ \E w \in Writers : AWriterWait(w)
    \/ \E w \in Writers : AWriterWoken(w)
    \/ \E w \in Writers : AWriterSpin(w)
    \/ \E w \in Writers : AWriteBookEnter(w)
    \/ \E w \in Writers : AWriteBookLeave(w)
    \/ \E w \in Writers : AWriterBroadcast(w)
    \/ ALibrarianCheck
    \/ ALibrarianGate
    \/ ALibrarianScan
    \/ ALibrarianSignal
    \/ ALibrarianSpin

NextA == Tick \/ ThreadsA

SpecA == InitA /\ [][NextA]_vars

\* ------------------------------------------------------- Policy A: claims

SetCount(arr) == Cardinality({i \in DOMAIN arr : arr[i] # 0})

\* C1: Policy A: while a writer is in the library (writers_in_library_count >= 1) no
\* reader is in the library (readers_in_library_count = 0).
C1_WriterExcludesReaders ==
    writers_in_library_count >= 1 => readers_in_library_count = 0

\* C3: Policy A: at most one writer is in the library.
C3_AtMostOneWriter == writers_in_library_count \in {0, 1}

\* C6: Policy A conservation: for every reader exactly one of readers_queue[i] and
\* readers_in_library[i] is set, the two reader counters are >= 0, add up to
\* readers_count and equal the numbers of set entries; the same for writers.
C6_Conservation ==
    /\ \A r \in Readers : (readers_queue[r] # 0) # (readers_in_library[r] # 0)
    /\ \A w \in Writers : (writers_queue[w] # 0) # (writers_in_library[w] # 0)
    /\ readers_queue_count >= 0 /\ readers_in_library_count >= 0
    /\ writers_queue_count >= 0 /\ writers_in_library_count >= 0
    /\ readers_queue_count + readers_in_library_count = readers_count
    /\ writers_queue_count + writers_in_library_count = writers_count
    /\ readers_queue_count = SetCount(readers_queue)
    /\ readers_in_library_count = SetCount(readers_in_library)
    /\ writers_queue_count = SetCount(writers_queue)
    /\ writers_in_library_count = SetCount(writers_in_library)

\* C11: Policy A window gating: while the gate writer_notification is set, no reader
\* moves from the queue into the library (no step is the first critical section of
\* read_books).
C11_WindowGating ==
    [][writer_notification = 1 =>
          readers_in_library_count' <= readers_in_library_count]_vars


\* C12: Policy A no-candidate case: when no writer waits (no entry of writers_queue is
\* set, in particular writers_count = 0) a librarian step does not set the gate
\* writer_notification.
C12_NoCandidateNoGate ==
    [][(SetCount(writers_queue) = 0 /\ writer_notification = 0) =>
          writer_notification' = 0]_vars

\* C20: Policy A cycle: after the librarian has set the gate and woken a writer, it
\* does not start its next window (leave while (writers_in_library_count) for the next
\* sleep) until that writer has entered the library and left it: when the librarian
\* leaves the loop no woken writer is still on its way into the library.
C20_WaitsForWokenWriter ==
    [][(lpc = "spin" /\ lpc' = "sleep") =>
          \A w \in Writers : wpc[w] \notin {"woken", "spin", "go"}]_vars

\* writer m waits in the queue and no waiting writer has waited longer (has an older
\* stamp in writers_queue), nor as long with a lower id
LongestWaiter(m) ==
    /\ m \in Writers
    /\ writers_queue[m] # 0
    /\ \A w \in Writers :
          writers_queue[w] # 0 =>
              \/ writers_queue[m] < writers_queue[w]
              \/ (writers_queue[m] = writers_queue[w] /\ m <= w)

\* C21: Policy A selection: in a cycle in which the librarian selects while some writer
\* waits, the condition variable it signals is that of a waiting writer whose waiting
\* time now - writers_queue[i] is maximal among the waiting writers, the lowest id
\* winning ties.
C21_SelectsLongestWaiter ==
    [][(lpc = "scan" /\ lpc' = "spin" /\ SetCount(writers_queue) > 0) =>
          LongestWaiter(max_waiter_id)]_vars

\* ------------------------------------------- Policy A under fair scheduling

\* The clock without a bound.  The code uses a time stamp only in a difference
\* now - stamp and in a test against 0, so the stamps are kept as their ranks: after
\* the second has passed, the stamps in use and the new time are renumbered 1, 2, ..
\* in their order (equal stamps stay equal, 0 stays 0).  The second does not pass in
\* the middle of the librarian's loop, whose local max_time holds a difference.
StampsInUse ==
    {readers_queue[r] : r \in Readers} \cup {readers_in_library[r] : r \in Readers}
    \cup {writers_queue[w] : w \in Writers} \cup {writers_in_library[w] : w \in Writers}

RankIn(v, S) == Cardinality({x \in S : x <= v})

TickRebase ==
    /\ lpc # "scan"
    /\ LET S == (StampsInUse \ {0}) \cup {now + 1}
           Re(arr) == [i \in DOMAIN arr |-> IF arr[i] = 0 THEN 0 ELSE RankIn(arr[i], S)]
       IN  /\ now' = RankIn(now + 1, S)
           /\ readers_queue' = Re(readers_queue)
           /\ readers_in_library' = Re(readers_in_library)
           /\ writers_queue' = Re(writers_queue)
           /\ writers_in_library' = Re(writers_in_library)
    /\ UNCHANGED <<common, bvars, acounts, writer_notification, llocals>>

FairNextA == TickRebase \/ ThreadsA

\* Every thread that can take a step infinitely often takes one infinitely often,
\* and time goes on.
FairnessA ==
    /\ \A r \in AllReaders : SF_vars(AReaderStep(r))
    /\ \A w \in AllWriters : SF_vars(AWriterStep(w))
    /\ SF_vars(ALibrarianStep)
    /\ SF_vars(TickRebase)

\* the configurations of at most FairMaxThreads readers and writers
FairInitA ==
    /\ ConfigA(FairMaxReaders, FairMaxWriters, {0})
    /\ readers_count + writers_count <= FairMaxThreads
FairSpecA == FairInitA /\ [][FairNextA]_vars /\ FairnessA

WriterQueuedA(w) == IF w \in Writers THEN writers_queue[w] # 0 ELSE FALSE
WriterInLibraryA(w) == IF w \in Writers THEN writers_in_library[w] # 0 ELSE FALSE
ReaderBlockedA(r) == IF r \in Readers THEN rpc[r] = "wait" ELSE FALSE
ReaderInLibraryA(r) == IF r \in Readers THEN readers_in_library[r] # 0 ELSE FALSE

\* C8: Policy A writer starvation freedom: under fair scheduling every writer that
\* waits in the queue is eventually in the library.
C8_NoWriterStarvationA ==
    \A w \in AllWriters :
        WriterQueuedA(w) ~> WriterInLibraryA(w)

\* C9: Policy A reader starvation freedom: under fair scheduling, whenever the gate
\* writer_notification is set it is eventually cleared, and every reader blocked on
\* readers_cond is eventually in the library.
C9_GateClearedReadersAdmitted ==
    /\ (writer_notification = 1) ~> (writer_notification = 0)
    /\ \A r \in AllReaders :
          ReaderBlockedA(r) ~> ReaderInLibraryA(r)

WriterLeftA(w) == IF w \in Writers THEN wpc[w] = "bcast" ELSE FALSE

\* C22: Policy A gate release: the step in which a writer leaves the library (the
\* second critical section of write_book) ends with the gate writer_notification
\* clear, and under fair scheduling every reader that is blocked on readers_cond when
\* a writer has left is woken by that writer's broadcast and enters the library.
C22_GateRelease ==
    /\ [][\A w \in Writers :
             (wpc[w] = "sleep" /\ wpc'[w] = "bcast") => writer_notification' = 0]_vars
    /\ \A w \in AllWriters : \A r \in AllReaders :
          (WriterLeftA(w) /\ ReaderBlockedA(r)) ~> ReaderInLibraryA(r)

\* a writer has left the library, the gate is clear and a reader is still blocked
C22_WriterLeftReaderBlocked ==
    /\ readers_count >= 1 /\ writers_count >= 1
    /\ wpc[0] = "bcast"
    /\ rpc[0] = "wait"
    /\ writer_notification = 0

\* ------------------------------------------------------- Policy B: claims

InLibraryB(k, i) == \E p \in 0 .. (N - 1) : in_library[p].kind = k /\ in_library[p].id = i
InQueueB(k, i) == \E p \in 0 .. (N - 1) : queue[p].kind = k /\ queue[p].id = i
\* how many cells of queue and of in_library hold agent (k, i)
OccurrencesB(k, i) ==
    Cardinality({p \in 0 .. (N - 1) : queue[p].kind = k /\ queue[p].id = i})
    + Cardinality({p \in 0 .. (N - 1) : in_library[p].kind = k /\ in_library[p].id = i})
\* the index of the first record of agent (k, i) in the queue
PositionB(k, i) ==
    CHOOSE p \in 0 .. (N - 1) :
        /\ queue[p].kind = k /\ queue[p].id = i
        /\ \A x \in 0 .. (p - 1) : ~(queue[x].kind = k /\ queue[x].id = i)

\* C2: Policy B never has a WRITER_KIND entry and a READER_KIND entry in in_library
\* at the same time.
C2_NoWriterWithReader ==
    ~(get_writers_in_library_count >= 1 /\ get_readers_in_library_count >= 1)

\* C4: Policy B never has more than one WRITER_KIND entry in in_library.
C4_AtMostOneWriter == get_writers_in_library_count <= 1

\* C5: Policy B conservation: every configured agent (kind, id) appears exactly once
\* in the queue array and the in_library array taken together.
C5_Conservation ==
    /\ \A r \in Readers : OccurrencesB(READER_KIND, r) = 1
    /\ \A w \in Writers : OccurrencesB(WRITER_KIND, w) = 1

\* C10: Policy B FIFO order: an agent that enters the library has no record of another
\* agent ahead of its own record in the queue (a record ahead of it was put in the
\* queue strictly before it and would be admitted later).
C10_FifoOrder ==
    [][ /\ \A r \in Readers :
            (BReadBooksEnter(r) /\ InQueueB(READER_KIND, r))
                => PositionB(READER_KIND, r) = 0
        /\ \A w \in Writers :
            (BWriteBookEnter(w) /\ InQueueB(WRITER_KIND, w))
                => PositionB(WRITER_KIND, w) = 0 ]_vars

\* the step is a librarian broadcast on readers_conds[r] / writers_conds[w]
BroadcastOnReaderCond(r) ==
    lpc = "bcast" /\ lpc' = "switch" /\ lib_kind # WRITER_KIND /\ queue[0].id = r
BroadcastOnWriterCond(w) ==
    lpc = "bcast" /\ lpc' = "switch" /\ lib_kind = WRITER_KIND /\ queue[0].id = w

\* a thread moves on from position a to position b only by the steps listed: into
\* the library only from behind its returned pthread_cond_wait, and out of the wait
\* only in a step that is a librarian broadcast on its own condition variable
AdmittedByBroadcast(pc, t, bcast) ==
    /\ (pc[t] # "sleep" /\ pc'[t] = "sleep") => pc[t] = "go"
    /\ (pc[t] # "go" /\ pc'[t] = "go") => pc[t] = "woken"
    /\ (pc[t] # "woken" /\ pc'[t] = "woken") => (pc[t] = "wait" /\ bcast)
    /\ (pc[t] # "wait" /\ pc'[t] = "wait") => pc[t] = "start"

C24_WakeTargetIsHead ==
    [][(lpc = "bcast" /\ lpc' = "switch") =>
          IF lib_kind = NO_KIND THEN queue[0].kind # WRITER_KIND
          ELSE queue[0].kind = lib_kind]_vars

\* C25: Policy B compatibility at wake: at the step of a librarian broadcast on a
\* writer condition variable the library holds no reader and no writer, and at the
\* step of a broadcast on a reader condition variable it holds no writer.
C25_CompatibleAtWake ==
    [][(lpc = "bcast" /\ lpc' = "switch") =>
          /\ get_writers_in_library_count = 0
          /\ lib_kind = WRITER_KIND => get_readers_in_library_count = 0]_vars

\* C26: Policy B: whenever an agent enters the library, the record that leave_queue
\* removes in that critical section, the one at queue[0], is the entering agent's own
\* record (same kind and id).
C26_RemovesOwnRecord ==
    [][ /\ \A r \in Readers :
            (rpc[r] = "go" /\ rpc'[r] = "sleep") => queue[0] = Presence(READER_KIND, r)
        /\ \A w \in Writers :
            (wpc[w] = "go" /\ wpc'[w] = "sleep") => queue[0] = Presence(WRITER_KIND, w) ]_vars

\* the number of records at the front of the queue: the index get_to_queue writes to
QueueLength == FirstEmpty(queue, 0)

RECURSIVE LeaveQueueStop(_, _)
LeaveQueueStop(q, i) ==
    IF KindAt(q, i + 1) # NO_KIND /\ i < ShiftLimit THEN LeaveQueueStop(q, i + 1) ELSE i

\* the greatest index leave_queue, get_to_library and get_to_queue use in the present state
LeaveQueueMaxIndex == LeaveQueueStop(queue, 0) + 1
GetToLibraryIndex == FirstEmpty(in_library, 0)
GetToQueueIndex == FirstEmpty(queue, 0)

\* C29: Policy B array bounds: every index used to read or write queue and in_library
\* in get_to_queue, get_to_library, leave_queue and leave_library is at most
\* readers_count + writers_count - 1 (leave_library stops at i < N by its loop bound).
C29_IndicesInBounds ==
    [][ /\ (\E r \in Readers : rpc[r] = "go" /\ rpc'[r] = "sleep")
            => (LeaveQueueMaxIndex <= N - 1 /\ GetToLibraryIndex <= N - 1)
        /\ (\E w \in Writers : wpc[w] = "go" /\ wpc'[w] = "sleep")
            => (LeaveQueueMaxIndex <= N - 1 /\ GetToLibraryIndex <= N - 1)
        /\ (\E r \in Readers : rpc[r] = "sleep" /\ rpc'[r] = "start")
            => GetToQueueIndex <= N - 1
        /\ (\E w \in Writers : wpc[w] = "sleep" /\ wpc'[w] = "start")
            => GetToQueueIndex <= N - 1 ]_vars

\* ------------------------------------------- Policy B under fair scheduling

BReaderStep(r) ==
    BReaderWait(r) \/ BReaderWoken(r) \/ BReadBooksEnter(r) \/ BReadBooksLeave(r)
BWriterStep(w) ==
    BWriterWait(w) \/ BWriterWoken(w) \/ BWriteBookEnter(w) \/ BWriteBookLeave(w)
BLibrarianStep == BLibrarianSwitch \/ BLibrarianCheck \/ BLibrarianBroadcast

\* Every thread that can take a step infinitely often takes one infinitely often.
FairnessB ==
    /\ \A r \in AllReaders : SF_vars(BReaderStep(r))
    /\ \A w \in AllWriters : SF_vars(BWriterStep(w))
    /\ SF_vars(BLibrarianStep)

FairInitB == ConfigB(FairMaxReaders, FairMaxWriters) /\ NoHist
FairSpecB == FairInitB /\ [][NextB]_vars /\ FairnessB

\* C7: Policy B starvation freedom: under fair scheduling every agent that is in the
\* queue is eventually in the library.
C7_NoStarvationB ==
    /\ \A r \in AllReaders :
          (r \in Readers /\ InQueueB(READER_KIND, r)) ~> InLibraryB(READER_KIND, r)
    /\ \A w \in AllWriters :
          (w \in Writers /\ InQueueB(WRITER_KIND, w)) ~> InLibraryB(WRITER_KIND, w)


\* ------------------------------------------- Policy B: the start-up scenario

\* 1 writer and 2 readers, with the history kept
ScenarioInitB ==
    /\ ConfigB(MaxReaders, MaxWriters)
    /\ readers_count = 2
    /\ writers_count = 1
    /\ hist = HistOn

ScenarioSpecB == ScenarioInitB /\ [][NextB]_vars

R0 == Presence(READER_KIND, 0)
R1 == Presence(READER_KIND, 1)
W0 == Presence(WRITER_KIND, 0)

\* C13: Policy B start-up with 1 writer and 2 readers: before the librarian's first
\* step the queue is [R0, R1, W0]; the first admission is R0's and the second R1's;
\* and the step of W0's first admission is taken only when R0 and R1 have both
\* entered and left the library and neither is in it.
C13_StartupScenario ==
    /\ []((lpc = "switch" /\ lib_kind = NO_KIND /\ hist.entered = {}) =>
             (queue[0] = R0 /\ queue[1] = R1 /\ queue[2] = W0))
    /\ []((Len(hist.order) >= 1 => hist.order[1] = R0) /\
          (Len(hist.order) >= 2 => hist.order[2] = R1))
    /\ [][(W0 \notin hist.entered /\ W0 \in hist'.entered) =>
             (/\ {R0, R1} \subseteq hist.left
              /\ ~InLibraryB(READER_KIND, 0)
              /\ ~InLibraryB(READER_KIND, 1))]_vars

\* C14: Policy B allows concurrent readers: when the librarian has taken the
\* READER_KIND case, its loop can end exactly when no writer is in the library,
\* however many readers are in it; so a second reader is admitted while an earlier
\* one is still inside (C14_TwoReadersInside is reached).
C14_ReaderNeedsOnlyNoWriter ==
    (lpc = "check" /\ lib_kind = READER_KIND) =>
        ((ENABLED BLibrarianCheck) <=> (get_writers_in_library_count = 0))

C14_TwoReadersInside ==
    /\ InLibraryB(READER_KIND, 0)
    /\ InLibraryB(READER_KIND, 1)
    /\ get_readers_in_library_count = 2

\* ------------------------------------------------ both programs: the mutex

\* pthread_mutex_lock as a step of its own: the thread is at a statement that takes
\* the mutex (the lock at the top of reader() / writer(), pthread_cond_wait taking it
\* again before it returns, the first lock of read_books / write_book) and the mutex
\* is free.  The step that follows does the rest of the critical section and unlocks.
\* A thread in its sleep() is not at such a statement.
LockPositions == {"start", "woken", "go"}

ReaderAcquire(r) ==
    /\ rpc[r] \in LockPositions
    /\ mutex = NoThread
    /\ mutex' = RId(r)
    /\ UNCHANGED <<main_t, call, readers_count, writers_count, rpc, wpc, lpc, bvars, avars>>

WriterAcquire(w) ==
    /\ wpc[w] \in LockPositions
    /\ mutex = NoThread
    /\ mutex' = WId(w)
    /\ UNCHANGED <<main_t, call, readers_count, writers_count, rpc, wpc, lpc, bvars, avars>>

\* Policy B librarian(): pthread_mutex_lock at the top of a do .. while pass
LibrarianAcquire ==
    /\ lpc = "check"
    /\ mutex = NoThread
    /\ mutex' = LId
    /\ UNCHANGED <<main_t, call, readers_count, writers_count, rpc, wpc, lpc, bvars, avars>>

Acquire ==
    \/ \E r \in Readers : ReaderAcquire(r)
    \/ \E w \in Writers : WriterAcquire(w)
    \/ LibrarianAcquire

\* which program runs: only r_w_2.c allocates queue
ProgramA == DOMAIN queue = {}
ProgramB == DOMAIN queue # {}

LockInit == FairInitA \/ FairInitB

LockNext ==
    \/ ProgramA /\ NextA
    \/ ProgramB /\ NextB
    \/ Acquire

LockSpec == LockInit /\ [][LockNext]_vars

\* the steps that read or write the shared state outside every critical section:
\* Policy A librarian() lines 332, 333, 336, 344 and writer() line 317, Policy B
\* librarian() lines 380 and 387 / 396 / 405
AccessWithoutMutex ==
    \/ ALibrarianCheck
    \/ ALibrarianGate
    \/ ALibrarianScan
    \/ ALibrarianSpin
    \/ \E w \in Writers : AWriterSpin(w)
    \/ BLibrarianSwitch
    \/ BLibrarianBroadcast

SharedState ==
    <<queue, in_library, rarrays, warrays, acounts, writer_notification>>

\* C15: in both programs every read and every write of the shared state happens while
\* the thread holds the mutex: while one thread owns the mutex, no step of another
\* thread reads or writes the shared state.
C15_AccessOnlyUnderMutex ==
    [][(mutex # NoThread /\ mutex' = mutex) =>
          (SharedState' = SharedState /\ ~AccessWithoutMutex)]_vars

\* C16: in both programs a reader or writer that is in its occupancy sleep inside
\* read_books / write_book does not own the mutex.
C16_NoMutexInSleep ==
    /\ \A r \in Readers : rpc[r] = "sleep" => mutex # RId(r)
    /\ \A w \in Writers : wpc[w] = "sleep" => mutex # WId(w)

\* a reader sleeps in the library and the librarian has taken the mutex
C16_SleeperAndOtherOwner ==
    /\ ProgramB
    /\ readers_count >= 1
    /\ rpc[0] = "sleep"
    /\ mutex = LId

\* --------------------------------------------------- get_random on its own

\* int, scaled down to IntBits bits; RAND_MAX is INT_MAX
IntMin == 0 - 2 ^ (IntBits - 1)
IntMax == 2 ^ (IntBits - 1) - 1
RAND_MAX == IntMax
Ints == IntMin .. IntMax

\* the int a result of int arithmetic is stored as (two's complement wrap-around)
WrapInt(x) == ((x - IntMin) % 2 ^ IntBits) + IntMin

\* a % b of C for b # 0: the remainder has the sign of a
CRem(a, b) ==
    LET m == IF b < 0 THEN 0 - b ELSE b
    IN  IF a >= 0 THEN a % m ELSE 0 - ((0 - a) % m)

Pending == [kind |-> "pending", v |-> 0]
Trap == [kind |-> "trap", v |-> 0]
Value(x) == [kind |-> "value", v |-> x]

\* get_random: int range = max - min + 1; return (rand() % range) + min;
\* rand() % 0 is undefined: the process is killed (SIGFPE) or some int comes back.
get_random(min, max, rnd) ==
    LET range == WrapInt(WrapInt(max - min) + 1)
    IN  IF range = 0
        THEN {Trap} \cup {Value(x) : x \in Ints}
        ELSE {Value(WrapInt(CRem(rnd, range) + min))}

\* no thread runs
IdleProgram ==
    /\ main_t = MainRunning
    /\ readers_count = 0 /\ writers_count = 0
    /\ mutex = NoThread
    /\ rpc = [r \in AllReaders |-> "absent"]
    /\ wpc = [w \in AllWriters |-> "absent"]
    /\ lpc = "absent"
    /\ AIdle
    /\ BIdle

program == <<main_t, readers_count, writers_count, mutex, rpc, wpc, lpc, bvars, avars>>

RandomInit ==
    /\ IdleProgram
    /\ call \in [fn : {"get_random"}, min : Ints, max : Ints, rnd : 0 .. RAND_MAX,
                 out : {Pending}]

GetRandomReturns ==
    /\ call.fn = "get_random"
    /\ call.out = Pending
    /\ \E o \in get_random(call.min, call.max, call.rnd) : call' = [call EXCEPT !.out = o]
    /\ UNCHANGED program

RandomSpec == RandomInit /\ [][GetRandomReturns]_vars

\* C17: get_random(min, max) returns a value v with min <= v <= max for every pair
\* min <= max and every non-negative value of rand().
C17_RandomInRange ==
    (call.fn = "get_random" /\ call.out # Pending /\ call.min <= call.max) =>
        (call.out.kind = "value" /\ call.min <= call.out.v /\ call.out.v <= call.max)

\* ----------------------------------------------- args_interpreter on its own

\* atoi on a string (a sequence of characters): an optional sign, then the decimal
\* digits up to the first character that is not a digit; 0 when there is none
DigitChars == <<"0", "1", "2", "3", "4", "5", "6", "7", "8", "9">>
IsDigit(c) == \E d \in DOMAIN DigitChars : DigitChars[d] = c
DigitValue(c) == (CHOOSE d \in DOMAIN DigitChars : DigitChars[d] = c) - 1

RECURSIVE DigitsValue(_, _, _)
DigitsValue(s, i, acc) ==
    IF i > Len(s) \/ ~IsDigit(s[i]) THEN acc
    ELSE DigitsValue(s, i + 1, acc * 10 + DigitValue(s[i]))

atoi(s) ==
    IF s = <<>> THEN 0
    ELSE IF s[1] = "-" THEN 0 - DigitsValue(s, 2, 0)
    ELSE IF s[1] = "+" THEN DigitsValue(s, 2, 0)
    ELSE DigitsValue(s, 1, 0)

\* min = max; max = min: the swap without temp
SwapNoTemp(min, max) == IF min > max THEN <<max, max>> ELSE <<min, max>>

\* if (min > max) { temp = min; min = max; max = temp; }
SwapIfGreater(min, max) == IF min > max THEN <<max, min>> ELSE <<min, max>>

\* args_interpreter, the -t branch with its six values argv[4] .. argv[9] (r_w_1.c;
\* r_w_2.c has the first two pairs, argv[4] .. argv[7]): the pairs
\* (min_reading_time, max_reading_time), (min_writing_time, max_writing_time),
\* (min_allow_read_time, max_allow_read_time)
args_interpreter(argv) ==
    [p \in 1 .. 3 |-> SwapIfGreater(atoi(argv[2 * p + 2]), atoi(argv[2 * p + 3]))]

\* the strings given as times
TimeArgs == {<<"5">>, <<"1", "0">>, <<"-", "1">>, <<"7", "x">>, <<"x">>}

ArgsInit ==
    /\ IdleProgram
    /\ call \in [fn : {"args_interpreter"},
                 argv : [4 .. 9 -> TimeArgs],
                 done : {FALSE},
                 times : {[p \in 1 .. 3 |-> <<0, 0>>]}]

ArgsInterpreterReturns ==
    /\ call.fn = "args_interpreter"
    /\ ~call.done
    /\ call' = [call EXCEPT !.done = TRUE, !.times = args_interpreter(call.argv)]
    /\ UNCHANGED program

ArgsSpec == ArgsInit /\ [][ArgsInterpreterReturns]_vars

\* C18: after args_interpreter has processed a -t option, every (min, max) pair
\* satisfies min <= max and holds the two values given, swapped when the first was
\* the greater and unchanged otherwise.
C18_PairsNormalised ==
    (call.fn = "args_interpreter" /\ call.done) =>
        \A p \in 1 .. 3 :
            LET a == atoi(call.argv[2 * p + 2])
                b == atoi(call.argv[2 * p + 3])
                min == call.times[p][1]
                max == call.times[p][2]
            IN  /\ min <= max
                /\ a <= b => (min = a /\ max = b)
                /\ a > b => (min = b /\ max = a)

\* "10" "5" was given for the reading times and 5, 10 is what they are set to
C18_SwappedPair ==
    /\ call.fn = "args_interpreter"
    /\ call.done
    /\ call.argv[4] = <<"1", "0">>
    /\ call.argv[5] = <<"5">>
    /\ call.times[1] = <<5, 10>>

\* ---------------------------------------------------- leave_queue on its own

\* the queue of n agents with len records in it: cells 0 .. n-1 are the array, the
\* first len of them hold the records of distinct agents, the rest are empty; cell n
\* is the memory behind the array, which leave_queue reads when len = n and which
\* holds whatever malloc left there
QueueOf(n, len, past) ==
    [p \in 0 .. n |->
        IF p = n THEN Presence(past, 0)
        ELSE IF p < len
             THEN Presence(IF p % 2 = 0 THEN READER_KIND ELSE WRITER_KIND, p \div 2)
             ELSE Presence(NO_KIND, 0)]

LeaveQueueInit ==
    /\ IdleProgram
    /\ \E n \in 1 .. MaxQueue : \E len \in 1 .. n : \E past \in UninitFill :
          call = [fn |-> "leave_queue", n |-> n, len |-> len,
                  q |-> QueueOf(n, len, past), done |-> FALSE]

LeaveQueueReturns ==
    /\ call.fn = "leave_queue"
    /\ ~call.done
    /\ call' = [call EXCEPT !.done = TRUE, !.q = leave_queue(call.q)]
    /\ UNCHANGED program

LeaveQueueSpec == LeaveQueueInit /\ [][LeaveQueueReturns]_vars

\* C28: Policy B leave_queue: for every queue length from 1 up to the number of
\* agents, leave_queue removes exactly the head record, moves every other record one
\* position forward in the same order and marks the former last position NO_KIND.
C28_LeaveQueueShifts ==
    [][(call.fn = "leave_queue" /\ ~call.done /\ call'.done) =>
          \A p \in 0 .. (call.n - 1) :
              IF p < call.len - 1 THEN call'.q[p] = call.q[p + 1]
              ELSE call'.q[p].kind = NO_KIND]_vars

\* ------------------------------------------------ both programs: shutdown

\* signal_handler: signal_flag = 0, at any time (SIGINT)
Interrupt ==
    /\ main_t.signal_flag = 1
    /\ main_t' = [main_t EXCEPT !.signal_flag = 0]
    /\ UNCHANGED <<call, readers_count, writers_count, mutex, rpc, wpc, lpc, bvars, avars>>

\* main(): while (signal_flag) ends
MainLoopExit ==
    /\ main_t.pc = "loop"
    /\ main_t.signal_flag = 0
    /\ main_t' = [main_t EXCEPT !.pc = "cancel"]
    /\ UNCHANGED <<call, readers_count, writers_count, mutex, rpc, wpc, lpc, bvars, avars>>

\* main(): pthread_cancel for every reader, every writer and the librarian: requests,
\* each acted on when its thread is at a cancellation point
MainCancel ==
    /\ main_t.pc = "cancel"
    /\ main_t' = [main_t EXCEPT !.pc = "cleaner", !.cancelled = TRUE]
    /\ UNCHANGED <<call, readers_count, writers_count, mutex, rpc, wpc, lpc, bvars, avars>>

\* main(): cleaner(): the mutex and the condition variables destroyed, the arrays freed
MainCleaner ==
    /\ main_t.pc = "cleaner"
    /\ main_t' = [main_t EXCEPT !.pc = "return", !.cleaned = TRUE]
    /\ UNCHANGED <<call, readers_count, writers_count, mutex, rpc, wpc, lpc, bvars, avars>>

\* main(): return 0: the process ends and every thread with it
MainReturn ==
    /\ main_t.pc = "return"
    /\ main_t' = [main_t EXCEPT !.pc = "exited"]
    /\ rpc' = [r \in AllReaders |-> IF rpc[r] = "absent" THEN "absent" ELSE "exited"]
    /\ wpc' = [w \in AllWriters |-> IF wpc[w] = "absent" THEN "absent" ELSE "exited"]
    /\ lpc' = "exited"
    /\ UNCHANGED <<call, readers_count, writers_count, mutex, bvars, avars>>

\* the positions at which a thread is inside a cancellation point: pthread_cond_wait
\* and sleep
CancellationPoints == {"wait", "sleep", "switch"}

\* a thread with a cancellation request pending, at a cancellation point, ends
ReaderCancelled(r) ==
    /\ main_t.cancelled
    /\ rpc[r] \in CancellationPoints
    /\ rpc' = [rpc EXCEPT ![r] = "exited"]
    /\ UNCHANGED <<main_t, call, readers_count, writers_count, mutex, wpc, lpc, bvars, avars>>

WriterCancelled(w) ==
    /\ main_t.cancelled
    /\ wpc[w] \in CancellationPoints
    /\ wpc' = [wpc EXCEPT ![w] = "exited"]
    /\ UNCHANGED <<main_t, call, readers_count, writers_count, mutex, rpc, lpc, bvars, avars>>

LibrarianCancelled ==
    /\ main_t.cancelled
    /\ lpc \in CancellationPoints
    /\ lpc' = "exited"
    /\ UNCHANGED <<main_t, call, readers_count, writers_count, mutex, rpc, wpc, bvars, avars>>

ShutdownNext ==
    \/ ProgramA /\ NextA
    \/ ProgramB /\ NextB
    \/ Interrupt
    \/ MainLoopExit
    \/ MainCancel
    \/ MainCleaner
    \/ MainReturn
    \/ \E r \in Readers : ReaderCancelled(r)
    \/ \E w \in Writers : WriterCancelled(w)
    \/ LibrarianCancelled

ShutdownSpec == LockInit /\ [][ShutdownNext]_vars

\* C19: shutdown ordering: every reader, writer and librarian thread has exited before
\* cleaner tears the shared state down, so that after the teardown no thread takes a
\* step that reads or writes the shared state or the mutex.
C19_NoStepAfterTeardown ==
    [][main_t.cleaned =>
          (/\ SharedState' = SharedState
           /\ mutex' = mutex
           /\ ~AccessWithoutMutex)]_vars

=============================================================================
